---------------------------- MODULE Spec2Model ----------------------------
(***************************************************************************)
(* The domain email-deliverability audit function (exports.handler and its *)
(* five checks) as a state machine.  One run is one request.  The          *)
(* synchronous part of the handler is one step (Handle); after it every    *)
(* DNS lookup the five checks issued is in flight, and each settling of a  *)
(* lookup is one step that runs the JavaScript continuation to completion  *)
(* (promise reactions are microtasks: they all run before the next DNS     *)
(* callback), the final response included.                                 *)
(*                                                                         *)
(* JavaScript strings are TLA+ strings; an absent object property is ""    *)
(* (fix) or <<>> (raw).                                                    *)
(***************************************************************************)
EXTENDS Integers, Sequences, FiniteSets, TLC

VARIABLES
    pc,           \* "start" | "awaiting" (at the await of Promise.all) | "done"
    event,        \* the request: [httpMethod, body]
    cleanDomain,  \* handler local, "" before it is assigned
    spfQ,         \* the TXT lookup of checkSPF: [st, out]
    dmarcQ,       \* the TXT lookup of checkDMARC
    mxQ,          \* the MX lookup of checkMX
    dkimQ,        \* selector -> the TXT lookup of that selector's probe
    blQ,          \* blacklist name -> the A lookup of that zone's probe
    found,        \* checkDKIM local
    listed,       \* checkBlacklists local
    clean,        \* checkBlacklists local
    spf,          \* the settled value of checkSPF(cleanDomain), or NoResult
    dmarc,
    dkim,
    mx,
    blacklists,
    response      \* what the handler returned, or NoResponse

vars == <<pc, event, cleanDomain, spfQ, dmarcQ, mxQ, dkimQ, blQ,
          found, listed, clean, spf, dmarc, dkim, mx, blacklists, response>>

---------------------------------------------------------------------------
(* Bounds of the model *)

\* how many entries of commonSelectors, in table order, a modelled audit probes
NumSelectors == 2
\* how many entries of the blacklist table, in table order, a modelled audit probes
NumZones == 2

---------------------------------------------------------------------------
(* String primitives of JavaScript *)

Char(s, i) == SubSeq(s, i, i)

lowerAlphabet == "abcdefghijklmnopqrstuvwxyz"
upperAlphabet == "ABCDEFGHIJKLMNOPQRSTUVWXYZ"
digitChars == "0123456789"
LowerSet == {Char(lowerAlphabet, i) : i \in 1..Len(lowerAlphabet)}
UpperSet == {Char(upperAlphabet, i) : i \in 1..Len(upperAlphabet)}
DigitSet == {Char(digitChars, i) : i \in 1..Len(digitChars)}
LetterSet == LowerSet \cup UpperSet
\* \w of a regular expression
WordSet == LetterSet \cup DigitSet \cup {"_"}
\* \s of a regular expression, and what trim() removes
WhiteSet == {" ", "\t", "\n", "\r"}

\* String.prototype.startsWith
startsWith(s, p) == Len(s) >= Len(p) /\ SubSeq(s, 1, Len(p)) = p

\* whether p occurs in s at position i
OccursAt(s, p, i) == i >= 1 /\ i + Len(p) - 1 <= Len(s) /\ SubSeq(s, i, i + Len(p) - 1) = p

\* String.prototype.includes
includes(s, p) == \E i \in 1..(Len(s) + 1) : OccursAt(s, p, i)

\* s.split(k).length - 1 for a non-empty k: the occurrences of k in s, scanned
\* left to right without overlap
RECURSIVE splitCount(_, _)
splitCount(s, k) ==
    LET at == {i \in 1..Len(s) : OccursAt(s, k, i)}
        first == CHOOSE i \in at : \A j \in at : i <= j
    IN  IF at = {} THEN 0
        ELSE 1 + splitCount(SubSeq(s, first + Len(k), Len(s)), k)

lowerChar(c) ==
    IF c \in UpperSet
    THEN Char(lowerAlphabet, CHOOSE i \in 1..Len(upperAlphabet) : Char(upperAlphabet, i) = c)
    ELSE c

\* String.prototype.toLowerCase
RECURSIVE toLowerCase(_)
toLowerCase(s) ==
    IF s = "" THEN "" ELSE lowerChar(Char(s, 1)) \o toLowerCase(SubSeq(s, 2, Len(s)))

\* String.prototype.trim
RECURSIVE trimStart(_)
trimStart(s) ==
    IF s # "" /\ Char(s, 1) \in WhiteSet THEN trimStart(SubSeq(s, 2, Len(s))) ELSE s

RECURSIVE trimEnd(_)
trimEnd(s) ==
    IF s # "" /\ Char(s, Len(s)) \in WhiteSet THEN trimEnd(SubSeq(s, 1, Len(s) - 1)) ELSE s

trim(s) == trimEnd(trimStart(s))

\* String.prototype.substring(0, n)
substring0(s, n) == SubSeq(s, 1, IF Len(s) < n THEN Len(s) ELSE n)

\* Array.prototype.join over strings
RECURSIVE join(_, _)
join(a, sep) ==
    IF Len(a) = 0 THEN ""
    ELSE IF Len(a) = 1 THEN a[1]
    ELSE a[1] \o sep \o join(Tail(a), sep)

\* the `s` of `selector${n > 1 ? 's' : ''}`
plural(n) == IF n > 1 THEN "s" ELSE ""

---------------------------------------------------------------------------
(* What a DNS lookup settles with, and what a check returns.               *)
(* Text of the source outside ASCII is written in ASCII: a dash for the    *)
(* long dash, -> for the arrow.                                            *)

\* dns.promises.resolveTxt / resolveMx / resolve4 fulfilled with `records`
Fulfilled(records) == [ok |-> TRUE, records |-> records, code |-> "", message |-> ""]
\* ... or rejected with an Error carrying `code` and `message`
Rejected(code, message) == [ok |-> FALSE, records |-> <<>>, code |-> code, message |-> message]
NoOutcome == [ok |-> FALSE, records |-> <<>>, code |-> "", message |-> ""]

Idle == [st |-> "idle", out |-> NoOutcome]
Pending == [st |-> "pending", out |-> NoOutcome]
Settled(out) == [st |-> "settled", out |-> out]

\* the object literal every check returns
CheckResult(name, status, summary, detail, fix, raw) ==
    [name |-> name, status |-> status, summary |-> summary, detail |-> detail,
     fix |-> fix, raw |-> raw]
NoResult == CheckResult("", "none", "", "", "", <<>>)

\* records.map(r => r.join(''))
flatten(records) == [i \in 1..Len(records) |-> join(records[i], "")]

\* a catch block that takes every rejection for an absence
IsAbsenceAnyError(out) == out.code # ""

\* err.code === 'ENODATA' || err.code === 'ENOTFOUND'
IsAbsence(out) == out.code = "ENODATA" \/ out.code = "ENOTFOUND"

---------------------------------------------------------------------------
(* checkSPF *)

lookupKeywords == <<"include:", "a:", "mx:", "ptr:", "redirect=">>

RECURSIVE lookupCountFrom(_, _)
lookupCountFrom(record, i) ==
    IF i > Len(lookupKeywords) THEN 0
    ELSE splitCount(record, lookupKeywords[i]) + lookupCountFrom(record, i + 1)

\* a count of the include: terms alone
lookupCountIncludes(record) == splitCount(record, "include:")

\* lookupKeywords.reduce((c, k) => c + (spf.split(k).length - 1), 0)
lookupCount(record) == lookupCountFrom(record, 1)

\* the catch block of checkSPF
checkSPFCatch(err) ==
    IF IsAbsence(err)
    THEN CheckResult("SPF Record", "fail", "No SPF record found",
            "Could not find any TXT records for this domain. This means email authentication is completely missing.",
            "Add a TXT record with your SPF policy. Consult your email provider for the correct include: directive.",
            <<>>)
    ELSE CheckResult("SPF Record", "error", "Could not check SPF", err.message, "", <<>>)

\* the try block of checkSPF, given the records resolveTxt(domain) returned
checkSPFRecords(records) ==
    LET flat == SelectSeq(flatten(records), LAMBDA r : startsWith(r, "v=spf1"))
        record == flat[1]
        n == lookupCount(record)
    IN  IF Len(flat) = 0
        THEN CheckResult("SPF Record", "fail", "No SPF record found",
                "Without SPF, receiving servers cannot verify which mail servers are authorized to send email for your domain. This significantly increases the chance of your emails being flagged as spam.",
                "Add a TXT record to your DNS: v=spf1 include:_spf.google.com ~all (adjust for your email provider).",
                <<>>)
        ELSE IF Len(flat) > 1
        THEN CheckResult("SPF Record", "warn", "Multiple SPF records found",
                "Found " \o ToString(Len(flat)) \o " SPF records. Having more than one SPF record is invalid per RFC 7208 and may cause authentication failures.",
                "Merge all SPF records into a single TXT record.",
                flat)
        ELSE IF includes(record, "+all")
        THEN CheckResult("SPF Record", "warn", "SPF record is too permissive (+all)",
                "Your SPF record ends with +all, which means ANY server is authorized to send as your domain. This defeats the purpose of SPF.",
                "Change +all to ~all (softfail) or -all (hardfail).",
                <<record>>)
        ELSE IF n > 10
        THEN CheckResult("SPF Record", "warn",
                "SPF record has too many lookups (" \o ToString(n) \o "/10)",
                "SPF allows a maximum of 10 DNS lookups. Exceeding this causes SPF to fail silently, which hurts deliverability.",
                "Flatten your SPF record by replacing include: directives with direct IP ranges where possible.",
                <<record>>)
        ELSE CheckResult("SPF Record", "pass", "SPF record configured correctly",
                "Found valid SPF record with " \o ToString(n) \o " DNS lookups (max 10). "
                    \o (IF includes(record, "-all")
                        THEN "Hardfail (-all) policy is set - strictest protection."
                        ELSE "Softfail (~all) policy is set - good baseline."),
                "",
                <<record>>)

\* checkSPF(domain), given what dns.resolveTxt(domain) settled with
checkSPF(out) == IF out.ok THEN checkSPFRecords(out.records) ELSE checkSPFCatch(out)

---------------------------------------------------------------------------
(* checkDMARC *)

\* the index of the first character at or after j that \s does not match
RECURSIVE skipWhite(_, _)
skipWhite(s, j) ==
    IF j <= Len(s) /\ Char(s, j) \in WhiteSet THEN skipWhite(s, j + 1) ELSE j

\* the longest run of \w characters of s that starts at j
RECURSIVE wordRun(_, _)
wordRun(s, j) ==
    IF j <= Len(s) /\ Char(s, j) \in WordSet THEN Char(s, j) \o wordRun(s, j + 1) ELSE ""

\* whether /;\s*p=(\w+)/ matches s starting at i
policyMatchAt(s, i) ==
    /\ Char(s, i) = ";"
    /\ OccursAt(s, "p=", skipWhite(s, i + 1))
    /\ wordRun(s, skipWhite(s, i + 1) + 2) # ""

\* the policy read with /p=(\w+)/, a pattern without the leading semicolon
policyOfAnyTag(record) ==
    LET at == {i \in 1..Len(record) : OccursAt(record, "p=", i) /\ wordRun(record, i + 2) # ""}
        first == CHOOSE i \in at : \A j \in at : i <= j
    IN  IF at = {} THEN "none" ELSE wordRun(record, first + 2)

\* policyMatch ? policyMatch[1] : 'none', for policyMatch = dmarc.match(/;\s*p=(\w+)/)
policyOf(record) ==
    LET at == {i \in 1..Len(record) : policyMatchAt(record, i)}
        first == CHOOSE i \in at : \A j \in at : i <= j
    IN  IF at = {} THEN "none" ELSE wordRun(record, skipWhite(record, first + 1) + 2)

\* the catch block of checkDMARC
checkDMARCCatch(err) ==
    IF IsAbsence(err)
    THEN CheckResult("DMARC Record", "fail", "No DMARC record found",
            "DMARC is now required by Google and Yahoo for bulk senders (5,000+ emails/day). Even below that threshold, missing DMARC significantly hurts inbox placement.",
            "Add a TXT record at _dmarc.yourdomain.com with at minimum: v=DMARC1; p=none; rua=mailto:dmarc@yourdomain.com",
            <<>>)
    ELSE CheckResult("DMARC Record", "error", "Could not check DMARC", err.message, "", <<>>)

\* the try block of checkDMARC, given the records resolveTxt(`_dmarc.${domain}`) returned
checkDMARCRecords(records) ==
    LET flat == SelectSeq(flatten(records), LAMBDA r : startsWith(r, "v=DMARC1"))
        record == flat[1]
        policy == policyOf(record)
        hasRua == includes(record, "rua=")
    IN  IF Len(flat) = 0
        THEN CheckResult("DMARC Record", "fail", "No DMARC record found",
                "DMARC tells receiving servers what to do when SPF or DKIM checks fail. Without it, your domain is vulnerable to spoofing and your deliverability suffers. Google and Yahoo now require DMARC for bulk senders.",
                "Add a TXT record at _dmarc.yourdomain.com: v=DMARC1; p=quarantine; rua=mailto:dmarc@yourdomain.com",
                <<>>)
        ELSE IF policy = "none"
        THEN CheckResult("DMARC Record", "warn", "DMARC policy set to \"none\" (monitoring only)",
                "Your DMARC record exists but the policy is set to \"none\", which means failed emails are still delivered. This is fine for initial monitoring, but won't protect your domain reputation long-term."
                    \o (IF hasRua THEN " Reporting (rua) is configured - good."
                        ELSE " No reporting address (rua) configured."),
                "Once you've confirmed legitimate mail is passing, upgrade to p=quarantine or p=reject.",
                <<record>>)
        ELSE IF policy = "quarantine"
        THEN CheckResult("DMARC Record", "pass", "DMARC set to quarantine - good protection",
                "Emails failing authentication will be sent to spam. "
                    \o (IF hasRua THEN "Reporting is active."
                        ELSE "Consider adding a rua= address for monitoring."),
                "",
                <<record>>)
        ELSE IF policy = "reject"
        THEN CheckResult("DMARC Record", "pass", "DMARC set to reject - strongest protection",
                "Emails failing authentication will be rejected entirely. This is the gold standard. "
                    \o (IF hasRua THEN "Reporting is active."
                        ELSE "Consider adding a rua= address to monitor rejected mail."),
                "",
                <<record>>)
        ELSE CheckResult("DMARC Record", "pass", "DMARC record found with policy: " \o policy,
                record, "", <<record>>)

\* checkDMARC(domain), given what dns.resolveTxt(`_dmarc.${domain}`) settled with
checkDMARC(out) == IF out.ok THEN checkDMARCRecords(out.records) ELSE checkDMARCCatch(out)

---------------------------------------------------------------------------
(* checkDKIM *)

commonSelectors ==
    <<"google", "default", "selector1", "selector2", "k1", "k2",
      "mail", "dkim", "s1", "s2", "smtp", "mandrill", "mailjet",
      "amazonses", "cm", "zendesk1", "zendesk2", "everlytickey1", "everlytickey2",
      "sig1", "mxvault">>

\* the probe condition testing the first record alone
dkimHitFirstRecord(out) ==
    /\ out.ok
    /\ Len(out.records) > 0
    /\ \/ includes(flatten(out.records)[1], "v=DKIM1")
       \/ includes(flatten(out.records)[1], "p=")

\* flat.some(r => r.includes('v=DKIM1') || r.includes('p=')) in the probe's try block
dkimHit(out) ==
    /\ out.ok
    /\ \E i \in 1..Len(out.records) :
          \/ includes(flatten(out.records)[i], "v=DKIM1")
          \/ includes(flatten(out.records)[i], "p=")

\* { selector, record: flat[0].substring(0, 120) + '...' }
dkimEntry(selector, out) ==
    [selector |-> selector, record |-> substring0(flatten(out.records)[1], 120) \o "..."]

\* the selector callback assigning `found` where the code pushes to it
dkimProbeAssign(foundNow, selector, out) ==
    IF dkimHit(out) THEN <<dkimEntry(selector, out)>> ELSE foundNow

\* the body of one selector's async callback: `found` after the probe settled
dkimProbe(foundNow, selector, out) ==
    IF dkimHit(out) THEN Append(foundNow, dkimEntry(selector, out)) ELSE foundNow

\* found.map(f => f.selector)
selectorsOf(foundNow) == [i \in 1..Len(foundNow) |-> foundNow[i].selector]

\* a checkDKIM that answers 'fail' when no selector was found
checkDKIMResultFail(foundNow) ==
    CheckResult("DKIM Records", IF Len(foundNow) = 0 THEN "fail" ELSE "pass",
        "", "", "", foundNow)

\* checkDKIM after its Promise.all, given `found`
checkDKIMResult(foundNow) ==
    IF Len(foundNow) = 0
    THEN CheckResult("DKIM Records", "warn", "No DKIM records found for common selectors",
            "DKIM signing could not be verified using common selectors (google, default, selector1, selector2, etc.). DKIM may still be configured with a custom selector. However, if DKIM is truly missing, your emails lack cryptographic authentication.",
            "Enable DKIM signing through your email provider. For Google Workspace: Admin Console -> Apps -> Google Workspace -> Gmail -> Authenticate email. For Microsoft 365: Defender portal -> Email authentication.",
            <<>>)
    ELSE CheckResult("DKIM Records", "pass",
            "DKIM configured (" \o ToString(Len(foundNow)) \o " selector" \o plural(Len(foundNow))
                \o " found: " \o join(selectorsOf(foundNow), ", ") \o ")",
            "DKIM provides cryptographic authentication for your emails, proving they haven't been tampered with in transit. Found active selector"
                \o plural(Len(foundNow)) \o ": " \o join(selectorsOf(foundNow), ", ") \o ".",
            "",
            foundNow)

---------------------------------------------------------------------------
(* checkMX *)

\* r placed behind every entry of the sorted list whose priority is not greater
RECURSIVE insertByPriority(_, _)
insertByPriority(sorted, r) ==
    IF Len(sorted) = 0 THEN <<r>>
    ELSE IF r.priority - sorted[1].priority < 0 THEN <<r>> \o sorted
    ELSE <<sorted[1]>> \o insertByPriority(Tail(sorted), r)

RECURSIVE sortFrom(_, _, _)
sortFrom(records, i, sorted) ==
    IF i > Len(records) THEN sorted
    ELSE sortFrom(records, i + 1, insertByPriority(sorted, records[i]))

\* the records left in the order of the answer
sortByPriorityOmitted(records) == records

\* records.sort((a, b) => a.priority - b.priority): stable, ascending
sortByPriority(records) == sortFrom(records, 1, <<>>)

\* the if / else-if chain over `primary`: <<provider, providerNote>>
detectProvider(primary) ==
    IF includes(primary, "google") \/ includes(primary, "gmail")
    THEN <<"Google Workspace", "Google Workspace is a solid choice for cold outbound with proper warm-up.">>
    ELSE IF includes(primary, "outlook") \/ includes(primary, "microsoft")
    THEN <<"Microsoft 365", "Microsoft 365 works well for outbound, especially with Outlook-to-Outlook sending.">>
    ELSE IF includes(primary, "zoho")
    THEN <<"Zoho Mail", "Zoho is functional but has lower sending reputation than Google/Microsoft for cold outbound.">>
    ELSE IF includes(primary, "protonmail") \/ includes(primary, "proton")
    THEN <<"ProtonMail", "ProtonMail prioritizes privacy but is limited for cold outbound campaigns.">>
    ELSE IF includes(primary, "mimecast")
    THEN <<"Mimecast", "Mimecast provides email security and filtering.">>
    ELSE IF includes(primary, "barracuda")
    THEN <<"Barracuda", "Barracuda is primarily an email security gateway.">>
    ELSE IF includes(primary, "pphosted") \/ includes(primary, "proofpoint")
    THEN <<"Proofpoint", "Proofpoint is an enterprise email security platform.">>
    ELSE <<"Unknown", "">>

\* records.map(r => `${r.priority} ${r.exchange}`)
mxRaw(records) == [i \in 1..Len(records) |-> ToString(records[i].priority) \o " " \o records[i].exchange]

\* the catch block of checkMX testing for ENODATA alone
checkMXCatchNoData(err) ==
    IF err.code = "ENODATA"
    THEN CheckResult("Mail Server (MX)", "fail", "No MX records found",
            "This domain does not appear to have mail service configured.",
            "Add MX records for your email provider.",
            <<>>)
    ELSE CheckResult("Mail Server (MX)", "error", "Could not check MX records", err.message, "", <<>>)

\* the catch block of checkMX
checkMXCatch(err) ==
    IF IsAbsence(err)
    THEN CheckResult("Mail Server (MX)", "fail", "No MX records found",
            "This domain does not appear to have mail service configured.",
            "Add MX records for your email provider.",
            <<>>)
    ELSE CheckResult("Mail Server (MX)", "error", "Could not check MX records", err.message, "", <<>>)

\* the try block of checkMX, given the records resolveMx(domain) returned
checkMXRecords(records) ==
    LET sorted == sortByPriority(records)
        primary == toLowerCase(sorted[1].exchange)
        detected == detectProvider(primary)
    IN  IF Len(records) = 0
        THEN CheckResult("Mail Server (MX)", "fail", "No MX records found",
                "This domain has no mail exchange records, meaning it cannot receive email. This is a critical issue for any domain used for business communication.",
                "Configure MX records pointing to your email provider.",
                <<>>)
        ELSE CheckResult("Mail Server (MX)", "pass",
                detected[1] \o " detected (" \o ToString(Len(sorted)) \o " MX record"
                    \o plural(Len(sorted)) \o ")",
                "Primary mail server: " \o primary \o " (priority "
                    \o ToString(sorted[1].priority) \o "). " \o detected[2],
                "",
                mxRaw(sorted))

\* checkMX(domain), given what dns.resolveMx(domain) settled with
checkMX(out) == IF out.ok THEN checkMXRecords(out.records) ELSE checkMXCatch(out)

---------------------------------------------------------------------------
(* checkBlacklists *)

blacklistTable ==
    << [name |-> "Spamhaus DBL", zone |-> "dbl.spamhaus.org"],
       [name |-> "SURBL", zone |-> "multi.surbl.org"],
       [name |-> "URIBL", zone |-> "multi.uribl.com"],
       [name |-> "Spamcop", zone |-> "bl.spamcop.net"],
       [name |-> "Barracuda", zone |-> "b.barracudacentral.org"] >>

\* the zone callback counting only a failure with ENOTFOUND as clean
blProbeNotFoundOnly(listedNow, cleanNow, name, out) ==
    IF out.ok THEN <<Append(listedNow, name), cleanNow>>
    ELSE IF out.code = "ENOTFOUND" THEN <<listedNow, Append(cleanNow, name)>>
    ELSE <<listedNow, cleanNow>>

\* the body of one zone's async callback: <<listed, clean>> after the probe settled
blProbe(listedNow, cleanNow, name, out) ==
    IF out.ok THEN <<Append(listedNow, name), cleanNow>>
    ELSE <<listedNow, Append(cleanNow, name)>>

\* checkBlacklists after its Promise.all, given `listed` and `clean`
checkBlacklistsResult(listedNow, cleanNow) ==
    IF Len(listedNow) > 0
    THEN CheckResult("Blacklist Check", "fail",
            "Listed on " \o ToString(Len(listedNow)) \o " blacklist" \o plural(Len(listedNow))
                \o ": " \o join(listedNow, ", "),
            "Your domain was found on: " \o join(listedNow, ", ")
                \o ". Being blacklisted severely impacts deliverability - most major email providers check these lists. Emails may be silently dropped or sent straight to spam.",
            "Visit each blacklist's website to check your listing status and follow their delisting procedures. Also audit your sending practices - blacklisting usually indicates a history of spam complaints or poor list hygiene.",
            [listed |-> listedNow, clean |-> cleanNow])
    ELSE CheckResult("Blacklist Check", "pass",
            "Not listed on " \o ToString(Len(cleanNow)) \o " major blacklists",
            "Checked against: " \o join(cleanNow, ", ")
                \o ". Your domain is clean on all checked blacklists.",
            "",
            [listed |-> listedNow, clean |-> cleanNow])

---------------------------------------------------------------------------
(* calculateScore *)

weightNames == {"SPF Record", "DMARC Record", "DKIM Records", "Mail Server (MX)", "Blacklist Check"}

weights ==
    [n \in weightNames |->
        CASE n = "SPF Record" -> 25
          [] n = "DMARC Record" -> 30
          [] n = "DKIM Records" -> 20
          [] n = "Mail Server (MX)" -> 10
          [] n = "Blacklist Check" -> 15]

\* weights[check.name] || 20
weightOf(check) == IF check.name \in weightNames THEN weights[check.name] ELSE 20

\* what one pass of the for loop adds to `total`, counted in halves of a point
contribution2(check) ==
    IF check.status = "pass" THEN 2 * weightOf(check)
    ELSE IF check.status = "warn" THEN weightOf(check)
    ELSE 0

RECURSIVE total2From(_, _)
total2From(checks, i) ==
    IF i > Len(checks) THEN 0 ELSE contribution2(checks[i]) + total2From(checks, i + 1)

\* Math.floor in the place of Math.round
roundHalvesDown(t2) == t2 \div 2

\* Math.round of a non-negative number of half points: halves round up
roundHalves(t2) == (t2 + 1) \div 2

\* calculateScore(checks)
calculateScore(checks) == roundHalves(total2From(checks, 1))

---------------------------------------------------------------------------
(* exports.handler *)

\* The handler's return value; `body` is the object given to JSON.stringify,
\* <<>> for the empty body.  The headers are the same constant object in every
\* response and are left out.
Response(statusCode, body) == [statusCode |-> statusCode, body |-> body]
NoResponse == Response(0, <<>>)

\* event.body as JSON.parse sees it: json = "unparsable" (JSON.parse throws),
\* "null" (it parses to null, the destructuring throws) or "object", in which
\* case hasDomain says whether the object has a `domain` and domain is its string
Body(json, hasDomain, domain) == [json |-> json, hasDomain |-> hasDomain, domain |-> domain]

AlnumSet == LetterSet \cup DigitSet

\* /^[a-zA-Z0-9][a-zA-Z0-9-]*\.[a-zA-Z]{2,}$/.test(domain)
domainPattern(domain) ==
    \E k \in 2..(Len(domain) - 2) :
        /\ Char(domain, 1) \in AlnumSet
        /\ \A i \in 2..(k - 1) : Char(domain, i) \in AlnumSet \cup {"-"}
        /\ Char(domain, k) = "."
        /\ \A i \in (k + 1)..Len(domain) : Char(domain, i) \in LetterSet

\* !domain || !pattern.test(domain), for the domain of a parsed body
domainRejected(body) ==
    \/ ~body.hasDomain
    \/ body.domain = ""
    \/ ~domainPattern(body.domain)

\* domain.toLowerCase().trim()
normalize(domain) == trim(toLowerCase(domain))

\* the value of the handler's `checks` object / array, in array order
checksOf(s, d, k, m, b) == <<s, d, k, m, b>>

\* the 200 response of the handler, given the five settled results
auditResponse(domain, s, d, k, m, b) ==
    Response(200,
        [domain |-> domain,
         score |-> calculateScore(checksOf(s, d, k, m, b)),
         checks |-> [spf |-> s, dmarc |-> d, dkim |-> k, mx |-> m, blacklists |-> b]])

\* earlyResponse without the method checks of lines 11-17
earlyResponseAnyMethod(ev) ==
    IF ev.body.json # "object" THEN Response(500, [error |-> "Internal server error"])
    ELSE IF domainRejected(ev.body) THEN Response(400, [error |-> "Invalid domain format"])
    ELSE NoResponse

\* what the handler returns before any check is called, or NoResponse when it
\* goes on to the checks
earlyResponse(ev) ==
    IF ev.httpMethod = "OPTIONS" THEN Response(200, <<>>)
    ELSE IF ev.httpMethod # "POST" THEN Response(405, [error |-> "Method not allowed"])
    ELSE IF ev.body.json # "object" THEN Response(500, [error |-> "Internal server error"])
    ELSE IF domainRejected(ev.body) THEN Response(400, [error |-> "Invalid domain format"])
    ELSE NoResponse

\* the selectors and blacklists an audit probes
probedSelectors == {commonSelectors[i] : i \in 1..NumSelectors}
probedBlacklists == {blacklistTable[i].name : i \in 1..NumZones}

\* Lines 3-39: the synchronous run of the handler up to the await of
\* Promise.all.  Either it returns early, or every check has been called and
\* has issued its lookups.
Handle ==
    /\ pc = "start"
    /\ IF earlyResponse(event) # NoResponse
       THEN /\ pc' = "done"
            /\ response' = earlyResponse(event)
            /\ UNCHANGED <<cleanDomain, spfQ, dmarcQ, mxQ, dkimQ, blQ>>
       ELSE /\ pc' = "awaiting"
            /\ cleanDomain' = normalize(event.body.domain)
            /\ spfQ' = Pending
            /\ dmarcQ' = Pending
            /\ mxQ' = Pending
            /\ dkimQ' = [sel \in probedSelectors |-> Pending]
            /\ blQ' = [name \in probedBlacklists |-> Pending]
            /\ UNCHANGED response
    /\ UNCHANGED <<event, found, listed, clean, spf, dmarc, dkim, mx, blacklists>>

\* Collect, had the checks rethrown the failures they catch: the first check
\* to fail with 'error' rejects Promise.all and the handler's catch answers 500
CollectRejecting(s, d, k, m, b) ==
    /\ spf' = s /\ dmarc' = d /\ dkim' = k /\ mx' = m /\ blacklists' = b
    /\ IF \E r \in {s.status, d.status, k.status, m.status, b.status} : r = "error"
       THEN /\ pc' = "done"
            /\ response' = Response(500, [error |-> "Internal server error"])
       ELSE IF \A r \in {s.status, d.status, k.status, m.status, b.status} : r # "none"
       THEN /\ pc' = "done"
            /\ response' = auditResponse(cleanDomain, s, d, k, m, b)
       ELSE UNCHANGED <<pc, response>>

\* The continuation of the handler's Promise.all: once the five checks have
\* settled, the score is computed and the 200 response returned.
Collect(s, d, k, m, b) ==
    /\ spf' = s /\ dmarc' = d /\ dkim' = k /\ mx' = m /\ blacklists' = b
    /\ IF \A r \in {s.status, d.status, k.status, m.status, b.status} : r # "none"
       THEN /\ pc' = "done"
            /\ response' = auditResponse(cleanDomain, s, d, k, m, b)
       ELSE UNCHANGED <<pc, response>>

\* dns.resolveTxt(domain) of checkSPF settles with `out`
SPFSettle(out) ==
    /\ pc = "awaiting"
    /\ spfQ.st = "pending"
    /\ spfQ' = Settled(out)
    /\ Collect(checkSPF(out), dmarc, dkim, mx, blacklists)
    /\ UNCHANGED <<event, cleanDomain, dmarcQ, mxQ, dkimQ, blQ, found, listed, clean>>

\* dns.resolveTxt(`_dmarc.${domain}`) of checkDMARC settles with `out`
DMARCSettle(out) ==
    /\ pc = "awaiting"
    /\ dmarcQ.st = "pending"
    /\ dmarcQ' = Settled(out)
    /\ Collect(spf, checkDMARC(out), dkim, mx, blacklists)
    /\ UNCHANGED <<event, cleanDomain, spfQ, mxQ, dkimQ, blQ, found, listed, clean>>

\* dns.resolveMx(domain) of checkMX settles with `out`
MXSettle(out) ==
    /\ pc = "awaiting"
    /\ mxQ.st = "pending"
    /\ mxQ' = Settled(out)
    /\ Collect(spf, dmarc, dkim, checkMX(out), blacklists)
    /\ UNCHANGED <<event, cleanDomain, spfQ, dmarcQ, dkimQ, blQ, found, listed, clean>>

\* Promise.race in the place of Promise.all: the first probe to settle resolves
LastOfRace(q, key) == TRUE

\* whether every probe of q but `key` has settled
LastOf(q, key) == \A other \in DOMAIN q \ {key} : q[other].st = "settled"

\* dns.resolveTxt(`${selector}._domainkey.${domain}`) of one probe of checkDKIM
\* settles with `out`; the last probe to settle resolves the inner Promise.all
\* and checkDKIM returns
DKIMProbeSettle(selector, out) ==
    /\ pc = "awaiting"
    /\ selector \in DOMAIN dkimQ
    /\ dkimQ[selector].st = "pending"
    /\ dkimQ' = [dkimQ EXCEPT ![selector] = Settled(out)]
    /\ found' = dkimProbe(found, selector, out)
    /\ Collect(spf, dmarc,
               IF LastOf(dkimQ, selector)
               THEN checkDKIMResult(dkimProbe(found, selector, out)) ELSE dkim,
               mx, blacklists)
    /\ UNCHANGED <<event, cleanDomain, spfQ, dmarcQ, mxQ, blQ, listed, clean>>

\* dns.resolve4(`${domain}.${bl.zone}`) of one probe of checkBlacklists settles
\* with `out`; the last probe to settle resolves the inner Promise.all and
\* checkBlacklists returns
BLProbeSettle(name, out) ==
    /\ pc = "awaiting"
    /\ name \in DOMAIN blQ
    /\ blQ[name].st = "pending"
    /\ blQ' = [blQ EXCEPT ![name] = Settled(out)]
    /\ listed' = blProbe(listed, clean, name, out)[1]
    /\ clean' = blProbe(listed, clean, name, out)[2]
    /\ Collect(spf, dmarc, dkim, mx,
               IF LastOf(blQ, name)
               THEN checkBlacklistsResult(blProbe(listed, clean, name, out)[1],
                                          blProbe(listed, clean, name, out)[2])
               ELSE blacklists)
    /\ UNCHANGED <<event, cleanDomain, spfQ, dmarcQ, mxQ, dkimQ, found>>

---------------------------------------------------------------------------
(* The requests and the DNS answers of the model *)

\* c-ares rejects with an Error whose message is `${syscall} ${code} ${hostname}`
dnsError(syscall, code, hostname) ==
    Rejected(code, syscall \o " " \o code \o " " \o hostname)

\* the two codes the checks test for, and codes of other failures
AbsenceCodes == {"ENODATA", "ENOTFOUND"}
TransientCodes == {"ETIMEOUT", "ESERVFAIL", "ECONNREFUSED"}

Methods == {"OPTIONS", "GET", "POST"}

DomainInputs ==
    {"Example.COM", "mail.example.com", "example.co.uk", " example.com ",
     "example", "-bad.com", "exa_mple.com", "example.c", "example.c0m", ".com"}

Bodies ==
    {Body("unparsable", FALSE, ""), Body("null", FALSE, ""), Body("object", FALSE, ""),
     Body("object", TRUE, "")}
    \cup {Body("object", TRUE, d) : d \in DomainInputs}

\* the host names the checks query
spfHost(domain) == domain
dmarcHost(domain) == "_dmarc." \o domain
dkimHost(selector, domain) == selector \o "._domainkey." \o domain
zoneOf(name) == blacklistTable[CHOOSE i \in 1..Len(blacklistTable) : blacklistTable[i].name = name].zone
blHost(name, domain) == domain \o "." \o zoneOf(name)

\* TXT answers at the domain
SpfAnswers ==
    { << >>,
      << <<"google-site-verification=abc123">> >>,
      << <<"v=spf1 include:_spf.google.com ~all">> >>,
      << <<"google-site-verification=abc123">>, <<"v=spf1 ip4:192.0.2.0/24 -all">> >>,
      << <<"v=spf1 include:_spf.goo", "gle.com mx:mail.example.com ~all">> >>,
      << <<"v=spf1 +all">> >>,
      << <<"v=spf1 include:a.example ~all">>, <<"v=spf1 -all">> >> }

\* TXT answers at _dmarc.<domain>
DmarcAnswers ==
    { << >>,
      << <<"v=spf1 -all">> >>,
      << <<"v=DMARC1; p=reject; rua=mailto:x@y.com">> >>,
      << <<"v=DMARC1; p=none">> >>,
      << <<"v=DMARC1;p=quarantine">> >>,
      << <<"v=DMARC1; rua=mailto:x@y.com">> >>,
      << <<"v=DMARC1; p=none">>, <<"v=DMARC1; p=reject">> >> }

\* MX answers
MxAnswers ==
    { << >>,
      << [priority |-> 20, exchange |-> "mx2.example.com"],
         [priority |-> 10, exchange |-> "mx1.example.com"] >>,
      << [priority |-> 1, exchange |-> "ASPMX.L.GOOGLE.COM"] >> }

longKey == "v=DKIM1; k=rsa; p=MIIBIjANBgkqhkiG9w0BAQEFAAOCAQ8AMIIBCgKCAQEA0123456789abcdefghijklmnopqrstuvwxyzABCDEFGHIJKLMNOPQRSTUVWXYZ0123456789abcdef"

\* TXT answers at <selector>._domainkey.<domain>
DkimAnswers ==
    { << >>,
      << <<"v=DKIM1; k=rsa; p=MIGfMA0GCSqGSIb3DQEB">> >>,
      << <<"k=rsa; p=MIGfMA0GCSqGSIb3DQEB">> >>,
      << <<"v=DK", "IM1; k=rsa">> >>,
      << <<"unrelated text">> >>,
      << <<"unrelated text">>, <<"v=DKIM1; k=rsa">> >>,
      << <<longKey>> >> }

\* a listed domain resolves to the blacklist's sentinel address
BlAnswers == { <<"127.0.1.2">> }

\* every outcome the model lets each lookup settle with
SpfOutcomes(domain) ==
    {Fulfilled(r) : r \in SpfAnswers}
    \cup {dnsError("queryTxt", c, spfHost(domain)) : c \in AbsenceCodes \cup TransientCodes}

DmarcOutcomes(domain) ==
    {Fulfilled(r) : r \in DmarcAnswers}
    \cup {dnsError("queryTxt", c, dmarcHost(domain)) : c \in AbsenceCodes \cup TransientCodes}

MxOutcomes(domain) ==
    {Fulfilled(r) : r \in MxAnswers}
    \cup {dnsError("queryMx", c, domain) : c \in AbsenceCodes \cup TransientCodes}

DkimOutcomes(selector, domain) ==
    {Fulfilled(r) : r \in DkimAnswers}
    \cup {dnsError("queryTxt", c, dkimHost(selector, domain)) : c \in {"ENODATA", "ENOTFOUND", "ETIMEOUT"}}

BlOutcomes(name, domain) ==
    {Fulfilled(r) : r \in BlAnswers}
    \cup {dnsError("queryA", c, blHost(name, domain)) : c \in {"ENOTFOUND", "ETIMEOUT"}}

\* the outcomes of the end-to-end specification: for each lookup an answer, an
\* absence and another failure
SpfOutcomesE2E(domain) ==
    { Fulfilled(<< <<"v=spf1 include:_spf.google.com ~all">> >>),
      dnsError("queryTxt", "ENODATA", spfHost(domain)),
      dnsError("queryTxt", "ETIMEOUT", spfHost(domain)) }

DmarcOutcomesE2E(domain) ==
    { Fulfilled(<< <<"v=DMARC1; p=none">> >>),
      dnsError("queryTxt", "ENOTFOUND", dmarcHost(domain)),
      dnsError("queryTxt", "ESERVFAIL", dmarcHost(domain)) }

MxOutcomesE2E(domain) ==
    { Fulfilled(<< [priority |-> 20, exchange |-> "mx2.example.com"],
                   [priority |-> 10, exchange |-> "mx1.example.com"] >>),
      dnsError("queryMx", "ENODATA", domain),
      dnsError("queryMx", "ETIMEOUT", domain) }

DkimOutcomesE2E(selector, domain) ==
    { Fulfilled(<< <<"v=DKIM1; k=rsa; p=MIGfMA0GCSqGSIb3DQEB">> >>),
      dnsError("queryTxt", "ENOTFOUND", dkimHost(selector, domain)),
      dnsError("queryTxt", "ETIMEOUT", dkimHost(selector, domain)) }

BlOutcomesE2E(name, domain) ==
    { Fulfilled(<<"127.0.1.2">>),
      dnsError("queryA", "ETIMEOUT", blHost(name, domain)) }

---------------------------------------------------------------------------
(* Spec: the handler, end to end *)

Init ==
    /\ pc = "start"
    /\ event \in [httpMethod : Methods, body : Bodies]
    /\ cleanDomain = ""
    /\ spfQ = Idle /\ dmarcQ = Idle /\ mxQ = Idle
    /\ dkimQ = <<>> /\ blQ = <<>>
    /\ found = <<>> /\ listed = <<>> /\ clean = <<>>
    /\ spf = NoResult /\ dmarc = NoResult /\ dkim = NoResult
    /\ mx = NoResult /\ blacklists = NoResult
    /\ response = NoResponse

Next ==
    \/ Handle
    \/ \E out \in SpfOutcomesE2E(cleanDomain) : SPFSettle(out)
    \/ \E out \in DmarcOutcomesE2E(cleanDomain) : DMARCSettle(out)
    \/ \E out \in MxOutcomesE2E(cleanDomain) : MXSettle(out)
    \/ \E selector \in DOMAIN dkimQ : \E out \in DkimOutcomesE2E(selector, cleanDomain) :
          DKIMProbeSettle(selector, out)
    \/ \E name \in DOMAIN blQ : \E out \in BlOutcomesE2E(name, cleanDomain) :
          BLProbeSettle(name, out)

Spec == Init /\ [][Next]_vars

---------------------------------------------------------------------------
(* Specifications of one check at a time.  Each starts in a state of an    *)
(* audit under way, in which the lookups of the other checks have already  *)
(* settled, and lets the lookups of the check under study settle with      *)
(* every outcome of the larger sets above.                                 *)

\* how many entries of commonSelectors, in table order, SpecDKIM probes
NumSelectorsDKIM == 3

allBlacklists == {blacklistTable[i].name : i \in 1..Len(blacklistTable)}

\* the handler at its await, for the request {"domain": "Example.COM"}
AuditUnderWay ==
    /\ pc = "awaiting"
    /\ event = [httpMethod |-> "POST", body |-> Body("object", TRUE, "Example.COM")]
    /\ cleanDomain = normalize("Example.COM")
    /\ response = NoResponse

\* checkSPF, checkDMARC and checkMX have returned: no SPF record, no DMARC
\* record, two mail servers
LookupsSettled ==
    /\ spfQ = Settled(dnsError("queryTxt", "ENODATA", spfHost(cleanDomain)))
    /\ spf = checkSPF(spfQ.out)
    /\ dmarcQ = Settled(dnsError("queryTxt", "ENOTFOUND", dmarcHost(cleanDomain)))
    /\ dmarc = checkDMARC(dmarcQ.out)
    /\ mxQ = Settled(Fulfilled(<< [priority |-> 10, exchange |-> "mx1.example.com"],
                                  [priority |-> 20, exchange |-> "mx2.example.com"] >>))
    /\ mx = checkMX(mxQ.out)

LookupsPending ==
    /\ spfQ = Pending /\ dmarcQ = Pending /\ mxQ = Pending
    /\ spf = NoResult /\ dmarc = NoResult /\ mx = NoResult

\* checkDKIM has returned: no selector of `selectors` exists
DKIMSettled(selectors) ==
    /\ dkimQ = [sel \in selectors |-> Settled(dnsError("queryTxt", "ENOTFOUND", dkimHost(sel, cleanDomain)))]
    /\ found = <<>>
    /\ dkim = checkDKIMResult(found)

DKIMPending(selectors) ==
    /\ dkimQ = [sel \in selectors |-> Pending]
    /\ found = <<>>
    /\ dkim = NoResult

\* checkBlacklists has returned: the domain is on none of the first n
\* blacklists, whose probes settled in table order
BLSettled(n) ==
    /\ blQ = [name \in {blacklistTable[i].name : i \in 1..n} |->
                Settled(dnsError("queryA", "ENOTFOUND", blHost(name, cleanDomain)))]
    /\ listed = <<>>
    /\ clean = [i \in 1..n |-> blacklistTable[i].name]
    /\ blacklists = checkBlacklistsResult(listed, clean)

BLPending(names) ==
    /\ blQ = [name \in names |-> Pending]
    /\ listed = <<>>
    /\ clean = <<>>
    /\ blacklists = NoResult

\* SpecLookups: the lookups of checkSPF, checkDMARC and checkMX
InitLookups ==
    /\ AuditUnderWay
    /\ LookupsPending
    /\ DKIMSettled(probedSelectors)
    /\ BLSettled(NumZones)

NextLookups ==
    \/ \E out \in SpfOutcomes(cleanDomain) : SPFSettle(out)
    \/ \E out \in DmarcOutcomes(cleanDomain) : DMARCSettle(out)
    \/ \E out \in MxOutcomes(cleanDomain) : MXSettle(out)

SpecLookups == InitLookups /\ [][NextLookups]_vars

\* SpecDKIM: the selector probes of checkDKIM
InitDKIM ==
    /\ AuditUnderWay
    /\ LookupsSettled
    /\ DKIMPending({commonSelectors[i] : i \in 1..NumSelectorsDKIM})
    /\ BLSettled(NumZones)

NextDKIM ==
    \E selector \in DOMAIN dkimQ : \E out \in DkimOutcomes(selector, cleanDomain) :
        DKIMProbeSettle(selector, out)

SpecDKIM == InitDKIM /\ [][NextDKIM]_vars

\* SpecBlacklists: the zone probes of checkBlacklists, over the whole table
InitBlacklists ==
    /\ AuditUnderWay
    /\ LookupsSettled
    /\ DKIMSettled(probedSelectors)
    /\ BLPending(allBlacklists)

NextBlacklists ==
    \E name \in DOMAIN blQ : \E out \in BlOutcomes(name, cleanDomain) :
        BLProbeSettle(name, out)

SpecBlacklists == InitBlacklists /\ [][NextBlacklists]_vars

---------------------------------------------------------------------------
(* SpecScore: calculateScore over every combination of statuses *)

Statuses == {"pass", "warn", "fail", "error"}

\* a result of the named check of which only the status matters to the score
Scored(name, status) == CheckResult(name, status, "", "", "", <<>>)

\* the handler with five settled checks in hand, about to compute the score
InitScore ==
    /\ AuditUnderWay
    /\ spfQ = Idle /\ dmarcQ = Idle /\ mxQ = Idle
    /\ dkimQ = <<>> /\ blQ = <<>>
    /\ found = <<>> /\ listed = <<>> /\ clean = <<>>
    /\ spf \in {Scored("SPF Record", st) : st \in Statuses}
    /\ dmarc \in {Scored("DMARC Record", st) : st \in Statuses}
    /\ dkim \in {Scored("DKIM Records", st) : st \in Statuses}
    /\ mx \in {Scored("Mail Server (MX)", st) : st \in Statuses}
    /\ blacklists \in {Scored("Blacklist Check", st) : st \in Statuses}

\* lines 42-53: the score of the five results and the response
Score ==
    /\ pc = "awaiting"
    /\ Collect(spf, dmarc, dkim, mx, blacklists)
    /\ UNCHANGED <<event, cleanDomain, spfQ, dmarcQ, mxQ, dkimQ, blQ, found, listed, clean>>

SpecScore == InitScore /\ [][Score]_vars

---------------------------------------------------------------------------
(* Vocabulary of the properties *)

\* the request passed the handler's method check, parse and validation
RequestAccepted ==
    /\ event.httpMethod = "POST"
    /\ event.body.json = "object"
    /\ event.body.hasDomain
    /\ event.body.domain # ""
    /\ domainPattern(event.body.domain)

\* some DNS lookup has been issued
LookupIssued ==
    \/ spfQ.st # "idle" \/ dmarcQ.st # "idle" \/ mxQ.st # "idle"
    \/ DOMAIN dkimQ # {} \/ DOMAIN blQ # {}

\* some issued DNS lookup has not settled yet
LookupPending ==
    \/ spfQ.st = "pending" \/ dmarcQ.st = "pending" \/ mxQ.st = "pending"
    \/ \E sel \in DOMAIN dkimQ : dkimQ[sel].st = "pending"
    \/ \E name \in DOMAIN blQ : blQ[name].st = "pending"

\* every DNS lookup of the audit has been issued and has settled
AllSettled == LookupIssued /\ ~LookupPending

\* the response is a 200 whose body is an AuditResult
AuditReturned ==
    /\ response.statusCode = 200
    /\ DOMAIN response.body = {"domain", "score", "checks"}

\* the lookup failed with a code other than ENODATA and ENOTFOUND
Transient(q) == q.st = "settled" /\ ~q.out.ok /\ q.out.code \notin {"ENODATA", "ENOTFOUND"}

\* the lookup failed with ENODATA or ENOTFOUND
AbsentByCode(q) == q.st = "settled" /\ ~q.out.ok /\ q.out.code \in {"ENODATA", "ENOTFOUND"}

\* the lookup succeeded and no TXT record of the answer starts with `tag`
NoRecordWith(q, tag) ==
    /\ q.st = "settled" /\ q.out.ok
    /\ \A i \in 1..Len(q.out.records) : ~startsWith(join(q.out.records[i], ""), tag)

\* twice the sum of weight x factor as the specification states it: weights
\* 25, 30, 20, 10, 15, factor 1 for pass, 1/2 for warn, 0 for fail and error
StatedFactor2(status) == IF status = "pass" THEN 2 ELSE IF status = "warn" THEN 1 ELSE 0
StatedSum2(s, d, k, m, b) ==
    25 * StatedFactor2(s) + 30 * StatedFactor2(d) + 20 * StatedFactor2(k)
        + 10 * StatedFactor2(m) + 15 * StatedFactor2(b)

\* n is the number of half points t2 rounded to a whole number, halves up
IsRounded(n, t2) == 2 * n - t2 \in {0, 1}

---------------------------------------------------------------------------
(* C1 *)

\* C1: for a POST with a valid domain, once every lookup has settled,
\* whatever each settled with, the handler has returned a 200 response
\* holding the lower-cased domain, a score and exactly the five check results
\* 'SPF Record', 'DMARC Record', 'DKIM Records', 'Mail Server (MX)' and
\* 'Blacklist Check', each with a status among pass, warn, fail and error.
C1_FullAuditResult ==
    (RequestAccepted /\ AllSettled) =>
        /\ AuditReturned
        /\ response.body.domain = toLowerCase(event.body.domain)
        /\ response.body.score \in 0..100
        /\ DOMAIN response.body.checks = {"spf", "dmarc", "dkim", "mx", "blacklists"}
        /\ response.body.checks.spf.name = "SPF Record"
        /\ response.body.checks.dmarc.name = "DMARC Record"
        /\ response.body.checks.dkim.name = "DKIM Records"
        /\ response.body.checks.mx.name = "Mail Server (MX)"
        /\ response.body.checks.blacklists.name = "Blacklist Check"
        /\ \A c \in DOMAIN response.body.checks :
              response.body.checks[c].status \in {"pass", "warn", "fail", "error"}

\* every lookup that can yield 'error' failed, a DKIM and a blacklist probe
\* failed too, and the audit was returned all the same
C1_Witness ==
    /\ RequestAccepted /\ AllSettled /\ AuditReturned
    /\ spf.status = "error" /\ dmarc.status = "error" /\ mx.status = "error"
    /\ \E sel \in DOMAIN dkimQ : ~dkimQ[sel].out.ok
    /\ \E name \in DOMAIN blQ : ~blQ[name].out.ok

---------------------------------------------------------------------------
(* C2 *)

\* C2: calculateScore returns the rounded sum of weight x factor (weights SPF
\* 25, DMARC 30, DKIM 20, MX 10, Blacklist 15; factor 1 for pass, 1/2 for warn,
\* 0 for fail and error); five passes give 100, five fails 0, five warns 50,
\* and every combination of statuses gives an integer in 0..100.
C2_Score ==
    AuditReturned =>
        LET st == [c \in DOMAIN response.body.checks |-> response.body.checks[c].status]
            score == response.body.score
        IN  /\ IsRounded(score, StatedSum2(st.spf, st.dmarc, st.dkim, st.mx, st.blacklists))
            /\ score \in 0..100
            /\ (\A c \in DOMAIN st : st[c] = "pass") => score = 100
            /\ (\A c \in DOMAIN st : st[c] = "fail") => score = 0
            /\ (\A c \in DOMAIN st : st[c] = "warn") => score = 50

\* a combination whose sum of half points is odd, so that rounding decides:
\* SPF alone in warn gives 12.5, rounded to 13
C2_Witness ==
    /\ AuditReturned
    /\ spf.status = "warn" /\ dmarc.status = "fail" /\ dkim.status = "error"
    /\ mx.status = "fail" /\ blacklists.status = "error"
    /\ response.body.score = 13

---------------------------------------------------------------------------
(* C3 *)

\* C3 as stated: in every one of the five checks a lookup failure with a code
\* other than ENODATA and ENOTFOUND gives status 'error' with the failure
\* message in detail, and never 'pass'.
C3_ErrorInEveryCheck ==
    /\ Transient(spfQ) => (spf.status = "error" /\ spf.detail = spfQ.out.message)
    /\ Transient(dmarcQ) => (dmarc.status = "error" /\ dmarc.detail = dmarcQ.out.message)
    /\ Transient(mxQ) => (mx.status = "error" /\ mx.detail = mxQ.out.message)
    /\ (dkim.status # "none" /\ \E sel \in DOMAIN dkimQ : Transient(dkimQ[sel]))
          => dkim.status = "error"
    /\ (blacklists.status # "none" /\ \E name \in DOMAIN blQ : Transient(blQ[name]))
          => blacklists.status = "error"

\* C3 amended: in checkSPF, checkDMARC and checkMX a lookup failure with a code
\* other than ENODATA and ENOTFOUND gives status 'error' with the failure
\* message in detail, no fix, and a score that is the rounded sum of the other
\* checks' contributions; checkDKIM and checkBlacklists absorb the failure of
\* a probe whatever its code (the selector is not found, the zone is clean)
\* and never return 'error'.
C3_ErrorInSingleLookupChecks ==
    /\ Transient(spfQ) =>
          /\ spf.status = "error" /\ spf.detail = spfQ.out.message /\ spf.fix = ""
          /\ AuditReturned => IsRounded(response.body.score,
                StatedSum2("error", dmarc.status, dkim.status, mx.status, blacklists.status))
    /\ Transient(dmarcQ) =>
          /\ dmarc.status = "error" /\ dmarc.detail = dmarcQ.out.message /\ dmarc.fix = ""
          /\ AuditReturned => IsRounded(response.body.score,
                StatedSum2(spf.status, "error", dkim.status, mx.status, blacklists.status))
    /\ Transient(mxQ) =>
          /\ mx.status = "error" /\ mx.detail = mxQ.out.message /\ mx.fix = ""
          /\ AuditReturned => IsRounded(response.body.score,
                StatedSum2(spf.status, dmarc.status, dkim.status, "error", blacklists.status))
    /\ dkim.status \in {"none", "warn", "pass"}
    /\ \A sel \in DOMAIN dkimQ :
          Transient(dkimQ[sel]) => \A i \in 1..Len(found) : found[i].selector # sel
    /\ blacklists.status \in {"none", "pass", "fail"}
    /\ \A name \in DOMAIN blQ :
          Transient(blQ[name]) => \E i \in 1..Len(clean) : clean[i] = name

\* the three single-lookup checks all failed with a timeout or server failure
\* and the audit was returned
C3_Witness ==
    /\ AuditReturned
    /\ Transient(spfQ) /\ Transient(dmarcQ) /\ Transient(mxQ)
    /\ spf.status = "error" /\ dmarc.status = "error" /\ mx.status = "error"
    /\ \E name \in DOMAIN blQ : Transient(blQ[name])

---------------------------------------------------------------------------
(* C4 *)

\* label(.label)*.tld as the specification states it: dot-separated labels of
\* letters, digits and hyphens, each starting with a letter or digit, then a
\* dot and a last part of at least two letters
StatedPattern(s) ==
    \E k \in 2..(Len(s) - 2) :
        /\ Char(s, k) = "."
        /\ \A i \in (k + 1)..Len(s) : Char(s, i) \in LetterSet
        /\ \A i \in 1..(k - 1) : Char(s, i) \in AlnumSet \cup {"-", "."}
        /\ \A i \in 1..(k - 1) : (i = 1 \/ Char(s, i - 1) = ".") => Char(s, i) \in AlnumSet

\* C4: a submitted domain string is accepted (not answered 400) exactly when,
\* trimmed, it matches label(.label)*.tld with a TLD of at least two letters,
\* and an accepted domain is audited under its trimmed, lower-cased form.
C4_AcceptedIffStatedPattern ==
    (pc # "start" /\ event.httpMethod = "POST" /\ event.body.json = "object"
        /\ event.body.hasDomain) =>
        /\ (response.statusCode # 400) <=> StatedPattern(trim(event.body.domain))
        /\ (response.statusCode # 400) => cleanDomain = toLowerCase(trim(event.body.domain))

---------------------------------------------------------------------------
(* C5 *)

\* the request is one the handler turns away: a method other than POST, a
\* body JSON.parse or the destructuring throws on, no domain, or a domain the
\* pattern rejects
Malformed ==
    \/ event.httpMethod # "POST"
    \/ event.body.json # "object"
    \/ ~event.body.hasDomain
    \/ event.body.domain = ""
    \/ ~domainPattern(event.body.domain)

\* no check has started: no lookup was issued and no check result exists
NoCheckStarted ==
    /\ ~LookupIssued
    /\ \A r \in {spf, dmarc, dkim, mx, blacklists} : r.status = "none"

\* C5 as stated: a malformed request (a method other than POST, an unparsable
\* body, a missing or invalid domain) is answered 405, 500 or 400 with no
\* check started, and a lookup is issued only for a validated request.
C5_MalformedAnswered4xx5xx ==
    /\ (pc = "done" /\ Malformed) =>
          (response.statusCode \in {405, 500, 400} /\ NoCheckStarted)
    /\ LookupIssued => ~Malformed

\* C5 amended: a malformed request is answered with no check started: 200
\* with an empty body for OPTIONS, 405 for any other method than POST, 500 for
\* a body that cannot be parsed or destructured, 400 for a missing or invalid
\* domain; and a lookup is issued only for a POST whose domain passed the
\* validation.
C5_MalformedAnsweredBeforeChecks ==
    /\ (pc = "done" /\ Malformed) =>
          /\ NoCheckStarted
          /\ response.statusCode =
                IF event.httpMethod = "OPTIONS" THEN 200
                ELSE IF event.httpMethod # "POST" THEN 405
                ELSE IF event.body.json # "object" THEN 500
                ELSE 400
          /\ event.httpMethod = "OPTIONS" => response.body = <<>>
    /\ pc # "start" => (Malformed <=> pc = "done" /\ NoCheckStarted)
    /\ LookupIssued => (event.httpMethod = "POST" /\ ~Malformed)

\* a POST whose domain fails the pattern was answered 400 with every lookup idle
C5_Witness ==
    /\ pc = "done" /\ response.statusCode = 400
    /\ event.httpMethod = "POST" /\ event.body.domain = "exa_mple.com"
    /\ NoCheckStarted

---------------------------------------------------------------------------
(* C6 *)

\* C6: in checkSPF, checkDMARC and checkMX absence is 'fail', never 'error':
\* when the lookup succeeds with no record starting with 'v=spf1' /
\* 'v=DMARC1', or with an empty MX set, or fails with ENODATA or ENOTFOUND,
\* the status is 'fail', the result carries a fix, and the score is the
\* rounded sum of the other checks' contributions.
C6_AbsenceIsFail ==
    /\ (NoRecordWith(spfQ, "v=spf1") \/ AbsentByCode(spfQ)) =>
          /\ spf.status = "fail" /\ spf.fix # ""
          /\ AuditReturned => IsRounded(response.body.score,
                StatedSum2("fail", dmarc.status, dkim.status, mx.status, blacklists.status))
    /\ (NoRecordWith(dmarcQ, "v=DMARC1") \/ AbsentByCode(dmarcQ)) =>
          /\ dmarc.status = "fail" /\ dmarc.fix # ""
          /\ AuditReturned => IsRounded(response.body.score,
                StatedSum2(spf.status, "fail", dkim.status, mx.status, blacklists.status))
    /\ ((mxQ.st = "settled" /\ mxQ.out.ok /\ Len(mxQ.out.records) = 0) \/ AbsentByCode(mxQ)) =>
          /\ mx.status = "fail" /\ mx.fix # ""
          /\ AuditReturned => IsRounded(response.body.score,
                StatedSum2(spf.status, dmarc.status, dkim.status, "fail", blacklists.status))

\* an audit returned with SPF absent by its records, DMARC absent by ENODATA
\* and MX absent by ENOTFOUND
C6_Witness ==
    /\ AuditReturned
    /\ NoRecordWith(spfQ, "v=spf1") /\ Len(spfQ.out.records) > 0
    /\ AbsentByCode(dmarcQ) /\ dmarcQ.out.code = "ENODATA"
    /\ AbsentByCode(mxQ) /\ mxQ.out.code = "ENOTFOUND"
    /\ spf.status = "fail" /\ dmarc.status = "fail" /\ mx.status = "fail"

---------------------------------------------------------------------------
(* C7 *)

\* a hit as the specification states it: a successful response with a record
\* containing 'v=DKIM1' or 'p='
StatedHit(q) ==
    /\ q.st = "settled" /\ q.out.ok
    /\ \E i \in 1..Len(q.out.records) :
          \/ includes(join(q.out.records[i], ""), "v=DKIM1")
          \/ includes(join(q.out.records[i], ""), "p=")

\* C7: whatever each selector probe settled with, checkDKIM returns 'warn'
\* when no probe produced a hit and 'pass' when at least one did, never 'fail'
\* or 'error', and the 'pass' result names exactly the selectors that hit (in
\* raw, each once, and in the summary).
C7_DkimWarnOrPass ==
    dkim.status # "none" =>
        LET hits == {sel \in DOMAIN dkimQ : StatedHit(dkimQ[sel])}
        IN  /\ \A sel \in DOMAIN dkimQ : dkimQ[sel].st = "settled"
            /\ dkim.status = IF hits = {} THEN "warn" ELSE "pass"
            /\ dkim.status \notin {"fail", "error"}
            /\ dkim.status = "pass" =>
                  /\ {dkim.raw[i].selector : i \in 1..Len(dkim.raw)} = hits
                  /\ Len(dkim.raw) = Cardinality(hits)
                  /\ \A sel \in DOMAIN dkimQ : includes(dkim.summary, sel) <=> sel \in hits

\* checkDKIM returned 'pass' naming two selectors while a third probe failed
\* with a timeout
C7_Witness ==
    /\ dkim.status = "pass" /\ Len(dkim.raw) = 2
    /\ \E sel \in DOMAIN dkimQ : Transient(dkimQ[sel])
    /\ \E sel \in DOMAIN dkimQ :
          /\ StatedHit(dkimQ[sel])
          /\ ~includes(join(dkimQ[sel].out.records[1], ""), "v=DKIM1")
          /\ ~includes(join(dkimQ[sel].out.records[1], ""), "p=")

---------------------------------------------------------------------------
(* C8 *)

\* the names of a list
NamesIn(list) == {list[i] : i \in 1..Len(list)}

\* C8: checkBlacklists partitions the five zones by probe outcome: a zone
\* whose lookup resolved is in 'listed', one whose lookup failed is in 'clean',
\* each zone is in exactly one list, once, when the result is produced; the
\* status is 'fail' iff 'listed' is non-empty, and when all five probes failed
\* it is 'pass' with 'clean' of length 5.
C8_BlacklistPartition ==
    /\ \A name \in DOMAIN blQ : blQ[name].st = "settled" =>
          /\ blQ[name].out.ok => (name \in NamesIn(listed) /\ name \notin NamesIn(clean))
          /\ ~blQ[name].out.ok => (name \in NamesIn(clean) /\ name \notin NamesIn(listed))
    /\ blacklists.status # "none" =>
          /\ DOMAIN blQ = {"Spamhaus DBL", "SURBL", "URIBL", "Spamcop", "Barracuda"}
          /\ \A name \in DOMAIN blQ : blQ[name].st = "settled"
          /\ NamesIn(blacklists.raw.listed) \cup NamesIn(blacklists.raw.clean) = DOMAIN blQ
          /\ NamesIn(blacklists.raw.listed) \cap NamesIn(blacklists.raw.clean) = {}
          /\ Len(blacklists.raw.listed) + Len(blacklists.raw.clean) = 5
          /\ NamesIn(blacklists.raw.listed) = {name \in DOMAIN blQ : blQ[name].out.ok}
          /\ blacklists.status = IF Len(blacklists.raw.listed) > 0 THEN "fail" ELSE "pass"
          /\ (\A name \in DOMAIN blQ : ~blQ[name].out.ok) =>
                (blacklists.status = "pass" /\ Len(blacklists.raw.clean) = 5)

\* all five probes failed, one of them with a timeout, and the result is
\* 'pass' with five clean lists
C8_Witness ==
    /\ blacklists.status = "pass"
    /\ Len(blacklists.raw.clean) = 5
    /\ \E name \in DOMAIN blQ : Transient(blQ[name])
    /\ \E name \in DOMAIN blQ : AbsentByCode(blQ[name])

---------------------------------------------------------------------------
(* C9 *)

\* `found` had the probes of the first n selectors of the table settled in
\* table order with the outcomes they did settle with
RECURSIVE foundInTableOrder(_)
foundInTableOrder(n) ==
    IF n = 0 THEN <<>>
    ELSE IF commonSelectors[n] \in DOMAIN dkimQ
    THEN dkimProbe(foundInTableOrder(n - 1), commonSelectors[n], dkimQ[commonSelectors[n]].out)
    ELSE foundInTableOrder(n - 1)

\* <<listed, clean>> had the probes of the first n zones of the table settled
\* in table order with the outcomes they did settle with
RECURSIVE listsInTableOrder(_)
listsInTableOrder(n) ==
    IF n = 0 THEN << <<>>, <<>> >>
    ELSE IF blacklistTable[n].name \in DOMAIN blQ
    THEN blProbe(listsInTableOrder(n - 1)[1], listsInTableOrder(n - 1)[2],
                 blacklistTable[n].name, blQ[blacklistTable[n].name].out)
    ELSE listsInTableOrder(n - 1)

\* the body of the response of the run in which every lookup settled with the
\* same outcome and the probes settled in table order
TableOrderAudit ==
    auditResponse(cleanDomain,
        checkSPF(spfQ.out),
        checkDMARC(dmarcQ.out),
        checkDKIMResult(foundInTableOrder(Len(commonSelectors))),
        checkMX(mxQ.out),
        checkBlacklistsResult(listsInTableOrder(Len(blacklistTable))[1],
                              listsInTableOrder(Len(blacklistTable))[2])).body

\* C9 as stated: for fixed DNS outcomes every interleaving of the lookups
\* produces the same AuditResult: the same statuses, score, summaries and raw
\* payloads.
C9_SameAuditResult ==
    (AuditReturned /\ AllSettled) => response.body = TableOrderAudit

\* C9 amended: for fixed DNS outcomes every interleaving of the lookups
\* produces the same domain, score and statuses, the same SPF, DMARC and MX
\* results, and the same sets of matched selectors and of listed and clean
\* blacklists; the order of the names in the summary, detail and raw of the
\* DKIM and blacklist results is the order in which the probes settled.
C9_SameUpToOrder ==
    (AuditReturned /\ AllSettled) =>
        LET r == response.body.checks
            t == TableOrderAudit.checks
        IN  /\ response.body.domain = TableOrderAudit.domain
            /\ response.body.score = TableOrderAudit.score
            /\ r.spf = t.spf /\ r.dmarc = t.dmarc /\ r.mx = t.mx
            /\ r.dkim.name = t.dkim.name /\ r.dkim.status = t.dkim.status
            /\ r.dkim.fix = t.dkim.fix
            /\ Len(r.dkim.raw) = Len(t.dkim.raw)
            /\ {r.dkim.raw[i] : i \in 1..Len(r.dkim.raw)} = {t.dkim.raw[i] : i \in 1..Len(t.dkim.raw)}
            /\ Len(r.dkim.summary) = Len(t.dkim.summary)
            /\ r.blacklists.name = t.blacklists.name
            /\ r.blacklists.status = t.blacklists.status
            /\ r.blacklists.fix = t.blacklists.fix
            /\ Len(r.blacklists.raw.listed) = Len(t.blacklists.raw.listed)
            /\ NamesIn(r.blacklists.raw.listed) = NamesIn(t.blacklists.raw.listed)
            /\ Len(r.blacklists.raw.clean) = Len(t.blacklists.raw.clean)
            /\ NamesIn(r.blacklists.raw.clean) = NamesIn(t.blacklists.raw.clean)
            /\ Len(r.blacklists.summary) = Len(t.blacklists.summary)

\* an audit returned after two selectors hit and two zones resolved, the
\* probes having settled against table order
C9_Witness ==
    /\ AuditReturned /\ AllSettled
    /\ Len(found) = 2 /\ found[1].selector = commonSelectors[2]
    /\ Len(listed) = 2 /\ listed[1] = blacklistTable[2].name
    /\ response.body # TableOrderAudit

---------------------------------------------------------------------------
(* C10 *)

\* C10: aggregation is wait-for-all: while any lookup of the audit is pending
\* no response exists; checkDKIM and checkBlacklists have no result before
\* every one of their probes has settled, even when a hit or a listing is
\* already in hand; and the audit is returned only with every lookup settled
\* and all five results present.
C10_WaitForAll ==
    /\ LookupPending => (response = NoResponse /\ pc = "awaiting")
    /\ dkim.status # "none" => \A sel \in DOMAIN dkimQ : dkimQ[sel].st = "settled"
    /\ blacklists.status # "none" => \A name \in DOMAIN blQ : blQ[name].st = "settled"
    /\ spf.status # "none" => spfQ.st = "settled"
    /\ dmarc.status # "none" => dmarcQ.st = "settled"
    /\ mx.status # "none" => mxQ.st = "settled"
    /\ AuditReturned =>
          /\ AllSettled
          /\ \A r \in {spf, dmarc, dkim, mx, blacklists} : r.status # "none"

\* a selector has hit and a zone has listed the domain, SPF, DMARC and MX have
\* settled, and with one DKIM probe and one blacklist probe still pending
\* neither check has a result and there is no response
C10_Witness ==
    /\ Len(found) > 0 /\ Len(listed) > 0
    /\ spf.status # "none" /\ dmarc.status # "none" /\ mx.status # "none"
    /\ \E sel \in DOMAIN dkimQ : dkimQ[sel].st = "pending"
    /\ \E name \in DOMAIN blQ : blQ[name].st = "pending"
    /\ dkim.status = "none" /\ blacklists.status = "none"
    /\ response = NoResponse

---------------------------------------------------------------------------
(* SpecSPF: checkSPF over SPF records assembled from their terms *)

\* how many include: terms the longest modelled SPF record carries
NumIncludes == 11

\* the i-th include: term of a modelled record
includeTerm(i) == "include:s" \o ToString(i) \o ".example.net"

\* terms a modelled record may carry in front of its include: terms
extraTerms ==
    <<"a", "mx", "a:mail.example.net", "ip6:2001:db8:a::/48", "redirect=_spf.example.net">>

\* the last term of a modelled record
allTerms == {"~all", "-all", "+all"}

\* the TXT string of the record with the chosen terms
spfRecordOf(extras, n, all) ==
    join(<<"v=spf1">> \o SelectSeq(extraTerms, LAMBDA t : t \in extras)
            \o [i \in 1..n |-> includeTerm(i)] \o <<all>>, " ")

\* dns.resolveTxt(domain) fulfilled with one SPF record
SpfRecordOutcomes ==
    {Fulfilled(<< <<spfRecordOf(extras, n, all)>> >>) :
        extras \in SUBSET {extraTerms[i] : i \in 1..Len(extraTerms)},
        n \in 0..NumIncludes, all \in allTerms}

\* checkSPF has returned: no SPF record
SPFReturned ==
    /\ spfQ = Settled(dnsError("queryTxt", "ENODATA", spfHost(cleanDomain)))
    /\ spf = checkSPF(spfQ.out)

\* checkDMARC has returned: no DMARC record
DMARCReturned ==
    /\ dmarcQ = Settled(dnsError("queryTxt", "ENOTFOUND", dmarcHost(cleanDomain)))
    /\ dmarc = checkDMARC(dmarcQ.out)

\* checkMX has returned: two mail servers
MXReturned ==
    /\ mxQ = Settled(Fulfilled(<< [priority |-> 10, exchange |-> "mx1.example.com"],
                                  [priority |-> 20, exchange |-> "mx2.example.com"] >>))
    /\ mx = checkMX(mxQ.out)

InitSPF ==
    /\ AuditUnderWay
    /\ spfQ = Pending /\ spf = NoResult
    /\ DMARCReturned
    /\ MXReturned
    /\ DKIMSettled(probedSelectors)
    /\ BLSettled(NumZones)

NextSPF == \E out \in SpfRecordOutcomes : SPFSettle(out)

SpecSPF == InitSPF /\ [][NextSPF]_vars

---------------------------------------------------------------------------
(* C11 *)

\* the terms of an SPF record: its maximal runs of characters other than a space
RECURSIVE StatedTerms(_)
StatedTerms(s) ==
    LET spaces == {i \in 1..Len(s) : Char(s, i) = " "}
        k == CHOOSE i \in spaces : \A j \in spaces : i <= j
    IN  IF spaces = {} THEN (IF s = "" THEN <<>> ELSE <<s>>)
        ELSE (IF k = 1 THEN <<>> ELSE <<SubSeq(s, 1, k - 1)>>)
                \o StatedTerms(SubSeq(s, k + 1, Len(s)))

\* the name of a term: what stands between its qualifier, if it has one, and
\* its ':', '/' or '=' or its end
StatedName(term) ==
    LET from == IF term # "" /\ Char(term, 1) \in {"+", "-", "~", "?"} THEN 2 ELSE 1
    IN  toLowerCase(wordRun(term, from))

\* the lookup-triggering mechanisms the claim lists
StatedLookupNames == {"include", "a", "mx", "ptr", "redirect"}

\* how many terms of the record are lookup-triggering mechanisms
StatedLookups(record) ==
    LET terms == StatedTerms(record)
    IN  Cardinality({i \in 1..Len(terms) : StatedName(terms[i]) \in StatedLookupNames})

\* the SPF records of the answer the lookup of checkSPF settled with
SpfRecordsSeen == SelectSeq(flatten(spfQ.out.records), LAMBDA r : startsWith(r, "v=spf1"))

\* checkSPF has returned for a domain with exactly one SPF record, which has
\* no '+all'
OneSpfRecordNoPlusAll ==
    /\ spfQ.st = "settled" /\ spfQ.out.ok
    /\ Len(SpfRecordsSeen) = 1
    /\ ~includes(SpfRecordsSeen[1], "+all")

\* how often the literal substrings 'include:', 'a:', 'mx:', 'ptr:' and
\* 'redirect=' occur in the record, wherever they stand
StatedOccurrences(record) ==
    Cardinality({p \in {"include:", "a:", "mx:", "ptr:", "redirect="} \X (1..Len(record)) :
                    OccursAt(record, p[1], p[2])})

\* the record's terms other than 'v=spf1' and its last one are n include: terms
IncludesOnly(record, n) ==
    LET terms == StatedTerms(record)
    IN  /\ Len(terms) = n + 2
        /\ \A i \in 2..(n + 1) : startsWith(terms[i], "include:")
        /\ StatedOccurrences(record) = n

\* C11 as stated: for a domain with exactly one SPF record that has no '+all',
\* checkSPF counts the lookup-triggering mechanisms (include, a, mx, ptr,
\* redirect) and returns 'warn' with a summary containing '<count>/10' when the
\* count exceeds 10 and 'pass' when it is 10 or fewer.
C11_WarnIffOverTenMechanisms ==
    OneSpfRecordNoPlusAll =>
        LET n == StatedLookups(SpfRecordsSeen[1])
        IN  IF n > 10
            THEN spf.status = "warn" /\ includes(spf.summary, ToString(n) \o "/10")
            ELSE spf.status = "pass"

\* C11 amended: for a domain with exactly one SPF record that has no '+all',
\* checkSPF counts the occurrences of the literal substrings 'include:', 'a:',
\* 'mx:', 'ptr:' and 'redirect=' in the record and returns 'warn' with a
\* summary containing '<count>/10' when the count exceeds 10 and 'pass' when
\* it is 10 or fewer; a record with exactly 11 include: terms and no other
\* occurrence gives 'warn' with '11/10', one with exactly 10 gives 'pass'.
C11_WarnIffOverTenOccurrences ==
    OneSpfRecordNoPlusAll =>
        LET record == SpfRecordsSeen[1]
            n == StatedOccurrences(record)
        IN  /\ IF n > 10
               THEN spf.status = "warn" /\ includes(spf.summary, ToString(n) \o "/10")
               ELSE spf.status = "pass"
            /\ IncludesOnly(record, 11) =>
                  spf.status = "warn" /\ includes(spf.summary, "11/10")
            /\ IncludesOnly(record, 10) => spf.status = "pass"

\* checkSPF has returned 'warn' with '11/10' for a single record of exactly
\* eleven include: terms
C11_Witness ==
    /\ OneSpfRecordNoPlusAll
    /\ IncludesOnly(SpfRecordsSeen[1], 11)
    /\ spf.status = "warn"
    /\ includes(spf.summary, "11/10")
    /\ pc = "done"

---------------------------------------------------------------------------
(* SpecDMARC: checkDMARC over DMARC records assembled from their tags *)

\* the p tag of a modelled record, "" for a record without one
policyTags == {"", "p=none", "p=quarantine", "p=reject", "p=monitor", "p=None"}

\* what stands between two tags of a modelled record
tagSeparators == {"; ", ";"}

\* where the rua tag of a modelled record stands
ruaPlaces == {"absent", "before", "after"}

\* the TXT string of the record with the chosen tags: v, then sp if the
\* record carries one, then p and rua
dmarcRecordOf(p, sep, rua, sp) ==
    join(<<"v=DMARC1">>
            \o (IF sp THEN <<"sp=reject">> ELSE <<>>)
            \o (IF rua = "before" THEN <<"rua=mailto:x@y.com">> ELSE <<>>)
            \o (IF p = "" THEN <<>> ELSE <<p>>)
            \o (IF rua = "after" THEN <<"rua=mailto:x@y.com">> ELSE <<>>),
         sep)

\* the TXT records beside the modelled one: none, a DMARC record behind it,
\* or a record of another kind in front of it
dmarcAnswerOf(record, others) ==
    IF others = "alone" THEN << <<record>> >>
    ELSE IF others = "then reject" THEN << <<record>>, <<"v=DMARC1; p=reject">> >>
    ELSE IF others = "then none" THEN << <<record>>, <<"v=DMARC1; p=none">> >>
    ELSE << <<"v=spf1 -all">>, <<record>> >>

\* dns.resolveTxt(`_dmarc.${domain}`) fulfilled with at least one DMARC record
DmarcRecordOutcomes ==
    {Fulfilled(dmarcAnswerOf(dmarcRecordOf(p, sep, rua, sp), others)) :
        p \in policyTags, sep \in tagSeparators, rua \in ruaPlaces, sp \in BOOLEAN,
        others \in {"alone", "then reject", "then none", "after another"}}

InitDMARC ==
    /\ AuditUnderWay
    /\ dmarcQ = Pending /\ dmarc = NoResult
    /\ SPFReturned
    /\ MXReturned
    /\ DKIMSettled(probedSelectors)
    /\ BLSettled(NumZones)

NextDMARC == \E out \in DmarcRecordOutcomes : DMARCSettle(out)

SpecDMARC == InitDMARC /\ [][NextDMARC]_vars

---------------------------------------------------------------------------
(* C12 *)

\* the tags of a DMARC record: what stands between its semicolons, trimmed
RECURSIVE StatedTags(_)
StatedTags(s) ==
    LET semis == {i \in 1..Len(s) : Char(s, i) = ";"}
        k == CHOOSE i \in semis : \A j \in semis : i <= j
    IN  IF semis = {} THEN <<trim(s)>>
        ELSE <<trim(SubSeq(s, 1, k - 1))>> \o StatedTags(SubSeq(s, k + 1, Len(s)))

\* the policy token of a record: the value of its first p= tag, 'none' for a
\* record without one
StatedPolicy(record) ==
    LET ptags == SelectSeq(Tail(StatedTags(record)), LAMBDA t : startsWith(t, "p="))
    IN  IF Len(ptags) = 0 THEN "none" ELSE SubSeq(ptags[1], 3, Len(ptags[1]))

\* the DMARC records of the answer the lookup of checkDMARC settled with
DmarcRecordsSeen ==
    SelectSeq(flatten(dmarcQ.out.records), LAMBDA r : startsWith(r, "v=DMARC1"))

\* checkDMARC has returned for an answer with at least one DMARC record
SomeDmarcRecord ==
    /\ dmarcQ.st = "settled" /\ dmarcQ.out.ok
    /\ Len(DmarcRecordsSeen) >= 1

\* C12: when at least one TXT record at _dmarc.<domain> starts with
\* 'v=DMARC1', checkDMARC decides on the first such record only: its p= policy
\* token, 'none' when the record has no p= tag, gives 'warn' for 'none' and
\* 'pass' for 'quarantine', 'reject' and any other token;
\* 'v=DMARC1; p=reject; rua=mailto:x@y.com' gives 'pass' with a summary
\* mentioning 'reject', and 'v=DMARC1; p=none' gives 'warn'.
C12_FirstRecordPolicy ==
    SomeDmarcRecord =>
        LET first == DmarcRecordsSeen[1]
            policy == StatedPolicy(first)
        IN  /\ dmarc.status = (IF policy = "none" THEN "warn" ELSE "pass")
            /\ dmarc.raw = <<first>>
            /\ policy # "none" => includes(dmarc.summary, policy)
            /\ first = "v=DMARC1; p=reject; rua=mailto:x@y.com" =>
                  dmarc.status = "pass" /\ includes(dmarc.summary, "reject")
            /\ first = "v=DMARC1; p=none" => dmarc.status = "warn"

\* checkDMARC has returned 'pass' mentioning 'reject' for an answer whose first
\* DMARC record is 'v=DMARC1; p=reject; rua=mailto:x@y.com' and whose second
\* one has the policy 'none'
C12_Witness ==
    /\ SomeDmarcRecord
    /\ Len(DmarcRecordsSeen) = 2
    /\ DmarcRecordsSeen[1] = "v=DMARC1; p=reject; rua=mailto:x@y.com"
    /\ StatedPolicy(DmarcRecordsSeen[2]) = "none"
    /\ dmarc.status = "pass"
    /\ includes(dmarc.summary, "reject")
    /\ pc = "done"

---------------------------------------------------------------------------
(* SpecMX: checkMX over MX record sets *)

\* how many records the largest modelled MX answer holds
MaxMxRecords == 2

\* exchange hosts of the modelled answers: one per provider of the chain, hosts
\* carrying the fragments of two providers, and a host carrying none
mxHosts ==
    {"ASPMX.L.GOOGLE.COM", "example-com.mail.protection.outlook.com", "mx.zoho.com",
     "mail.protonmail.ch", "us-smtp-inbound-1.mimecast.com",
     "d1.ess.barracudanetworks.com", "mxa-001.pphosted.com",
     "outlook.gmail-relay.example", "mimecast.zoho.example", "mx1.example.com"}

mxPriorities == {5, 10, 20}

mxRecords == [priority : mxPriorities, exchange : mxHosts]

\* dns.resolveMx(domain) fulfilled with a non-empty answer, in any order
MxRecordOutcomes ==
    {Fulfilled(records) :
        records \in UNION {[1..n -> mxRecords] : n \in 1..MaxMxRecords}}

InitMX ==
    /\ AuditUnderWay
    /\ mxQ = Pending /\ mx = NoResult
    /\ SPFReturned
    /\ DMARCReturned
    /\ DKIMSettled(probedSelectors)
    /\ BLSettled(NumZones)

NextMX == \E out \in MxRecordOutcomes : MXSettle(out)

SpecMX == InitMX /\ [][NextMX]_vars

---------------------------------------------------------------------------
(* C13 *)

\* the ordered table of provider fragments
StatedProviderTable ==
    << [provider |-> "Google Workspace", fragments |-> {"google", "gmail"}],
       [provider |-> "Microsoft 365", fragments |-> {"outlook", "microsoft"}],
       [provider |-> "Zoho Mail", fragments |-> {"zoho"}],
       [provider |-> "ProtonMail", fragments |-> {"protonmail", "proton"}],
       [provider |-> "Mimecast", fragments |-> {"mimecast"}],
       [provider |-> "Barracuda", fragments |-> {"barracuda"}],
       [provider |-> "Proofpoint", fragments |-> {"pphosted", "proofpoint"}] >>

\* the provider of the first entry of the table of which a fragment occurs in
\* the host, 'Unknown' when there is none
StatedProvider(host) ==
    LET hits == {i \in 1..Len(StatedProviderTable) :
                    \E f \in StatedProviderTable[i].fragments : includes(host, f)}
    IN  IF hits = {} THEN "Unknown"
        ELSE StatedProviderTable[CHOOSE i \in hits : \A j \in hits : i <= j].provider

\* the 'priority host' pair of a record
StatedPair(r) == ToString(r.priority) \o " " \o r.exchange

\* raw lists the pair of every record, in ascending order of priority
RawInAscendingOrder(records, raw) ==
    LET n == Len(records)
    IN  /\ Len(raw) = n
        /\ \E order \in [1..n -> 1..n] :
              /\ \A i, j \in 1..n : i # j => order[i] # order[j]
              /\ \A i, j \in 1..n :
                    i < j => records[order[i]].priority <= records[order[j]].priority
              /\ \A i \in 1..n : raw[i] = StatedPair(records[order[i]])

\* checkMX has returned for a non-empty MX answer
SomeMxRecord ==
    /\ mxQ.st = "settled" /\ mxQ.out.ok
    /\ Len(mxQ.out.records) >= 1

\* C13: for a non-empty MX record set checkMX returns 'pass', takes as primary
\* a record of the lowest numeric priority, lists every 'priority host' pair
\* in raw in ascending priority order, and names the provider of the first
\* entry of the ordered fragment table of which a fragment occurs in the
\* lower-cased primary host, 'Unknown' when there is none; no other host is
\* classified, and the primary host 'aspmx.l.google.com' gives
\* 'Google Workspace'.
C13_PrimaryAndProvider ==
    SomeMxRecord =>
        LET records == mxQ.out.records
            lowest == {i \in 1..Len(records) :
                          \A j \in 1..Len(records) : records[i].priority <= records[j].priority}
        IN  /\ mx.status = "pass"
            /\ RawInAscendingOrder(records, mx.raw)
            /\ \E i \in lowest :
                  LET primary == toLowerCase(records[i].exchange)
                  IN  /\ mx.raw[1] = StatedPair(records[i])
                      /\ startsWith(mx.detail, "Primary mail server: " \o primary
                            \o " (priority " \o ToString(records[i].priority) \o ").")
                      /\ startsWith(mx.summary, StatedProvider(primary) \o " detected (")
                      /\ primary = "aspmx.l.google.com" =>
                            startsWith(mx.summary, "Google Workspace detected (")

\* checkMX has returned 'Google Workspace' for an answer that lists a Zoho
\* host of priority 10 in front of ASPMX.L.GOOGLE.COM of priority 5
C13_Witness ==
    /\ SomeMxRecord
    /\ mxQ.out.records = << [priority |-> 10, exchange |-> "mx.zoho.com"],
                            [priority |-> 5, exchange |-> "ASPMX.L.GOOGLE.COM"] >>
    /\ mx.status = "pass"
    /\ mx.raw = <<"5 ASPMX.L.GOOGLE.COM", "10 mx.zoho.com">>
    /\ startsWith(mx.summary, "Google Workspace detected (")
    /\ includes(mx.detail, "aspmx.l.google.com")
    /\ pc = "done"

---------------------------------------------------------------------------
(* C14 *)

\* C14: checkDKIM returns 'warn' or 'pass' only, so the score of every
\* AuditResult the handler returns is at least 10: no returned audit has all
\* five checks in 'fail' or 'error', and no score from 0 to 9 is returned,
\* whatever the lookups settled with.
C14_ScoreAtLeastTen ==
    AuditReturned =>
        /\ response.body.checks.dkim.status \in {"warn", "pass"}
        /\ response.body.score >= 10
        /\ response.body.score \notin 0..9
        /\ \E c \in DOMAIN response.body.checks :
              response.body.checks[c].status \notin {"fail", "error"}

\* an audit was returned with SPF, DMARC, MX and the blacklists in 'fail' or
\* 'error' and no DKIM selector found: its score is exactly 10
C14_Witness ==
    /\ AuditReturned
    /\ AllSettled
    /\ \A c \in {"spf", "dmarc", "mx", "blacklists"} :
          response.body.checks[c].status \in {"fail", "error"}
    /\ response.body.checks.dkim.status = "warn"
    /\ response.body.score = 10

=============================================================================
